---- MODULE Spec2Model ----
(***************************************************************************)
(* A model of sokoban-rs (src/src/main.rs): the level parser               *)
(* (Level::from_lines with floodfill), the level-file loader               *)
(* (load_levels), the move resolver (Game::make_move, Game::is_blocked,    *)
(* Level::is_wall), the solved predicate (Game::solved) and the part of    *)
(* main that owns the loaded levels and the running game.                  *)
(*                                                                         *)
(* Text.  A Rust &str is a sequence of one-character strings; every        *)
(* character used is ASCII, so str::len (bytes) is Len.                    *)
(*                                                                         *)
(* Coordinates.  Position.x and Position.y are usize.  make_move reads     *)
(* them only through `as i32`, writes them only through +1 / -1, and       *)
(* compares Positions for equality.  A coordinate is therefore kept as     *)
(* the integer that `as i32` yields (usize::MAX is -1, usize::MAX - 1 is   *)
(* -2, ...), which is one-to-one and commutes with +1 / -1 for every       *)
(* coordinate within MaxOut cells of the grid.  Whether a usize            *)
(* subtraction below 0 panics or wraps depends on the build                *)
(* (overflow checks), which is the variable overflow_checks.               *)
(***************************************************************************)
EXTENDS Integers, Sequences, FiniteSets, TLC

\* ---------------------------------------------------------------- bounds
\* longest text (in characters, newlines included) given to the parser
MaxText == 4
\* longest level file (in characters) given to load_levels
MaxFile == 6
\* how many cells outside the grid the player or a box is followed
MaxOut == 1

\* ------------------------------------------------------- grid primitives
Direction == {"Up", "Down", "Left", "Right"}

as_offset(dir) ==
    CASE dir = "Up"    -> <<0, -1>>
      [] dir = "Right" -> <<1, 0>>
      [] dir = "Down"  -> <<0, 1>>
      [] dir = "Left"  -> <<-1, 0>>

Tile == {"Wall", "Player", "PlayerOnGoal", "Star", "StarOnGoal", "Goal",
         "OutsideFloor", "InsideFloor"}

Ok(v) == [ok |-> TRUE, value |-> v]
Err(e) == [ok |-> FALSE, error |-> e]

from_char(c) ==
    CASE c = "#" -> Ok("Wall")
      [] c = "@" -> Ok("Player")
      [] c = "+" -> Ok("PlayerOnGoal")
      [] c = "$" -> Ok("Star")
      [] c = "*" -> Ok("StarOnGoal")
      [] c = "." -> Ok("Goal")
      [] c = " " -> Ok("OutsideFloor")
      [] OTHER   -> Err(<<"'", c, "' is an invalid tile">>)

Position(x, y) == [x |-> x, y |-> y]

\* Position::move_in_direction; the result of the usize arithmetic and
\* whether it overflowed (y - 1 or x - 1 at 0, y + 1 or x + 1 at usize::MAX)
Position_move_in_direction(pos, dir) ==
    CASE dir = "Down"  -> [pos |-> [pos EXCEPT !.y = pos.y + 1], overflow |-> pos.y = -1]
      [] dir = "Up"    -> [pos |-> [pos EXCEPT !.y = pos.y - 1], overflow |-> pos.y = 0]
      [] dir = "Left"  -> [pos |-> [pos EXCEPT !.x = pos.x - 1], overflow |-> pos.x = 0]
      [] dir = "Right" -> [pos |-> [pos EXCEPT !.x = pos.x + 1], overflow |-> pos.x = -1]

Player(position, direction) == [position |-> position, direction |-> direction]

Player_move_in_direction(player, direction) ==
    LET m == Position_move_in_direction(player.position, direction)
    IN  [player |-> Player(m.pos, direction), overflow |-> m.overflow]

Star(position) == [position |-> position]

\* a Star::move_in_direction that leaves the box where it is
Star_move_nowhere(star, direction) == [star |-> star, overflow |-> FALSE]

Star_move_in_direction(star, direction) ==
    LET m == Position_move_in_direction(star.position, direction)
    IN  [star |-> Star(m.pos), overflow |-> m.overflow]

Goal(position) == [position |-> position]

GameState(player, stars, goals, steps) ==
    [player |-> player, stars |-> stars, goals |-> goals, steps |-> steps]

\* a contains that finds nothing
contains_never(vec, v) == FALSE

\* Vec::contains
contains(vec, v) == \E i \in 1..Len(vec) : vec[i] = v

\* an index that is always the first box
position_first(vec, v) == 1

\* Iterator::position: the first index (0-based in the source, 1-based here)
position(vec, v) == CHOOSE i \in 1..Len(vec) : vec[i] = v /\ \A j \in 1..(i-1) : vec[j] # v

\* ------------------------------------------------------------- floodfill
\* map[y][x] of the source is map[y+1][x+1] here
\* floodfill without its step to the row above
RECURSIVE floodfill_no_up(_, _, _, _, _)
floodfill_no_up(map, old, new, x, y) ==
    LET m0 == IF map[y+1][x+1] = old THEN [map EXCEPT ![y+1][x+1] = new] ELSE map
        m1 == IF x > 0 /\ m0[y+1][x] = old
              THEN floodfill_no_up(m0, old, new, x-1, y) ELSE m0
        m2 == IF x + 1 < Len(m1[y+1]) /\ m1[y+1][x+2] = old
              THEN floodfill_no_up(m1, old, new, x+1, y) ELSE m1
        m4 == IF y + 1 < Len(m2) /\ m2[y+2][x+1] = old
              THEN floodfill_no_up(m2, old, new, x, y+1) ELSE m2
    IN  m4

RECURSIVE floodfill(_, _, _, _, _)
floodfill(map, old, new, x, y) ==
    LET m0 == IF map[y+1][x+1] = old THEN [map EXCEPT ![y+1][x+1] = new] ELSE map
        m1 == IF x > 0 /\ m0[y+1][x] = old
              THEN floodfill(m0, old, new, x-1, y) ELSE m0
        m2 == IF x + 1 < Len(m1[y+1]) /\ m1[y+1][x+2] = old
              THEN floodfill(m1, old, new, x+1, y) ELSE m1
        m3 == IF y > 0 /\ m2[y][x+1] = old
              THEN floodfill(m2, old, new, x, y-1) ELSE m2
        m4 == IF y + 1 < Len(m3) /\ m3[y+2][x+1] = old
              THEN floodfill(m3, old, new, x, y+1) ELSE m3
    IN  m4

\* ----------------------------------------------------- Level::from_lines
NoPos == [none |-> TRUE]

\* a loop body that leaves the Star / StarOnGoal marker in the map
scan_tile_keeps_marker(acc, c, x, y) ==
    LET t == from_char(c) IN
    IF ~t.ok THEN [acc EXCEPT !.err = t.error, !.failed = TRUE]
    ELSE LET tile == t.value IN
      IF tile = "Player" \/ tile = "PlayerOnGoal"
      THEN [acc EXCEPT !.player_pos = Position(x, y),
                       !.row = Append(@, "OutsideFloor")]
      ELSE IF tile = "Star" \/ tile = "StarOnGoal"
      THEN [acc EXCEPT !.stars = Append(@, Star(Position(x, y))),
                       !.row = Append(@, tile)]
      ELSE IF tile = "PlayerOnGoal" \/ tile = "StarOnGoal" \/ tile = "Goal"
      THEN [acc EXCEPT !.goals = Append(@, Goal(Position(x, y))),
                       !.row = Append(@, "OutsideFloor")]
      ELSE [acc EXCEPT !.row = Append(@, tile)]

\* the body of the inner loop: one character of one line
scan_tile(acc, c, x, y) ==
    LET t == from_char(c) IN
    IF ~t.ok THEN [acc EXCEPT !.err = t.error, !.failed = TRUE]
    ELSE LET tile == t.value IN
      IF tile = "Player" \/ tile = "PlayerOnGoal"
      THEN [acc EXCEPT !.player_pos = Position(x, y),
                       !.row = Append(@, "OutsideFloor")]
      ELSE IF tile = "Star" \/ tile = "StarOnGoal"
      THEN [acc EXCEPT !.stars = Append(@, Star(Position(x, y))),
                       !.row = Append(@, "OutsideFloor")]
      ELSE IF tile = "PlayerOnGoal" \/ tile = "StarOnGoal" \/ tile = "Goal"
      THEN [acc EXCEPT !.goals = Append(@, Goal(Position(x, y))),
                       !.row = Append(@, "OutsideFloor")]
      ELSE [acc EXCEPT !.row = Append(@, tile)]

\* for (x, tile) in line.chars().enumerate(), stopping at the first error
RECURSIVE scan_line(_, _, _, _)
scan_line(acc, line, x, y) ==
    IF acc.failed \/ x >= Len(line) THEN acc
    ELSE scan_line(scan_tile(acc, line[x+1], x, y), line, x+1, y)

\* a padding of walls
RECURSIVE pad_row_walls(_, _)
pad_row_walls(row, n) == IF n <= 0 THEN row ELSE pad_row_walls(Append(row, "Wall"), n-1)

\* the padding of a short row
RECURSIVE pad_row(_, _)
pad_row(row, n) == IF n <= 0 THEN row ELSE pad_row(Append(row, "OutsideFloor"), n-1)

\* for (y, line) in lines.iter().enumerate(); the lines are called
\* map_lines here and in from_lines, as in load_levels
RECURSIVE scan_lines(_, _, _, _)
scan_lines(acc, map_lines, y, longest_line_len) ==
    IF acc.failed \/ y >= Len(map_lines) THEN acc
    ELSE LET line == map_lines[y+1]
             a == scan_line([acc EXCEPT !.row = <<>>], line, 0, y)
             row == IF Len(line) < longest_line_len
                    THEN pad_row(a.row, longest_line_len - Len(line))
                    ELSE a.row
         IN  IF a.failed THEN a
             ELSE scan_lines([a EXCEPT !.map = Append(@, row)], map_lines, y+1, longest_line_len)

max_len(map_lines) == CHOOSE n \in {Len(map_lines[i]) : i \in 1..Len(map_lines)} :
                      \A i \in 1..Len(map_lines) : Len(map_lines[i]) <= n

from_lines(map_lines) ==
    IF map_lines = <<>> THEN Err(<<"Invalid level: Level is empty">>)
    ELSE
      LET longest_line_len == max_len(map_lines)
          acc == scan_lines([map |-> <<>>, stars |-> <<>>, goals |-> <<>>,
                             player_pos |-> NoPos, row |-> <<>>,
                             failed |-> FALSE, err |-> <<>>],
                            map_lines, 0, longest_line_len)
      IN  IF acc.failed THEN Err(acc.err)
          ELSE IF acc.player_pos = NoPos
          THEN Err(<<"Invalid level: Level has no starting position">>)
          ELSE LET pos == acc.player_pos
                   start_state == GameState(Player(pos, "Right"), acc.stars, acc.goals, 0)
                   height == Len(acc.map)
                   map == floodfill(acc.map, "OutsideFloor", "InsideFloor", pos.x, pos.y)
               IN  Ok([map |-> map, width |-> longest_line_len, height |-> height,
                       start_state |-> start_state])

\* --------------------------------------------------------- Level::is_wall
\* value: the boolean returned; panicked: map[y][x] was indexed outside the row
is_wall(level, x, y) ==
    IF y < 0 \/ y >= level.height \/ x < 0 \/ x > level.height
    THEN [value |-> FALSE, panicked |-> FALSE]
    ELSE IF x >= Len(level.map[y+1])
         THEN [value |-> FALSE, panicked |-> TRUE]
         ELSE [value |-> level.map[y+1][x+1] = "Wall", panicked |-> FALSE]

\* ------------------------------------------------------------------ Game
\* Game.camera, camera_moving and camera_direction are written only by
\* move_camera and Game::step's KeyUp arm and are read by no function below.
from_level(level) == [level |-> level, state |-> level.start_state]

\* is_blocked without its test for a box on the cell
is_blocked_walls_only(game, x, y) ==
    LET w == is_wall(game.level, x, y)
    IN  IF w.panicked \/ w.value THEN w ELSE [value |-> FALSE, panicked |-> FALSE]

is_blocked(game, x, y) ==
    LET w == is_wall(game.level, x, y)
    IN  IF w.panicked \/ w.value THEN w
        ELSE [value |-> contains(game.state.stars, Star(Position(x, y))),
              panicked |-> FALSE]

NoFault == "none"
IndexFault == "index out of bounds"
OverflowFault == "attempt to subtract with overflow"

\* a make_move that leaves the facing to Player::move_in_direction
set_direction_skipped(state, direction) == state

\* the first statement of make_move: self.state.player.direction = direction
set_direction(state, direction) == [state EXCEPT !.player.direction = direction]

\* the last statement of make_move: self.state.player = player.move_in_direction
move_player(state, direction, checks) ==
    LET pm == Player_move_in_direction(state.player, direction)
    IN  IF pm.overflow /\ checks
        THEN [state |-> state, fault |-> OverflowFault]
        ELSE [state |-> [state EXCEPT !.player = pm.player], fault |-> NoFault]

\* Game::make_move: the GameState it leaves and the panic it ends in, if any
make_move(game, direction, checks) ==
    LET s0 == set_direction(game.state, direction)
        off == as_offset(direction)
        x_off == off[1]
        y_off == off[2]
        new_x == game.state.player.position.x + x_off
        new_y == game.state.player.position.y + y_off
        w == is_wall(game.level, new_x, new_y)
    IN  IF w.panicked THEN [state |-> s0, fault |-> IndexFault]
        ELSE IF w.value THEN [state |-> s0, fault |-> NoFault]
        ELSE
          LET star == Star(Position(new_x, new_y))
          IN  IF contains(s0.stars, star)
              THEN LET b == is_blocked([game EXCEPT !.state = s0],
                                       new_x + x_off, new_y + y_off)
                   IN  IF b.panicked THEN [state |-> s0, fault |-> IndexFault]
                       ELSE IF ~b.value
                       THEN LET ind == position(s0.stars, star)
                                m == Star_move_in_direction(s0.stars[ind], direction)
                            IN  IF m.overflow /\ checks
                                THEN [state |-> s0, fault |-> OverflowFault]
                                ELSE move_player([s0 EXCEPT !.stars[ind] = m.star],
                                                 direction, checks)
                       ELSE [state |-> s0, fault |-> NoFault]
              ELSE move_player(s0, direction, checks)

\* a solved that asks for a box on every goal
solved_goals_covered(game) ==
    \A i \in 1..Len(game.state.goals) :
        contains(game.state.stars, Star(game.state.goals[i].position))

solved(game) ==
    \A i \in 1..Len(game.state.stars) :
        contains(game.state.goals, Goal(game.state.stars[i].position))

\* ----------------------------------------------------------- load_levels
Newline == "\n"
CarriageReturn == "\r"
Whitespace == {" ", "\t", Newline, CarriageReturn}

\* str::lines: split at "\n", a trailing "\r" of a line dropped with it; the
\* empty piece after a final "\n" is no line
RECURSIVE str_lines(_, _, _)
str_lines(text, i, cur) ==
    IF i > Len(text) THEN (IF cur = <<>> THEN <<>> ELSE <<cur>>)
    ELSE IF text[i] = Newline
         THEN LET line == IF cur # <<>> /\ cur[Len(cur)] = CarriageReturn
                          THEN SubSeq(cur, 1, Len(cur) - 1) ELSE cur
              IN  <<line>> \o str_lines(text, i+1, <<>>)
         ELSE str_lines(text, i+1, Append(cur, text[i]))

RECURSIVE trim_right(_)
trim_right(line) ==
    IF line # <<>> /\ line[Len(line)] \in Whitespace
    THEN trim_right(SubSeq(line, 1, Len(line) - 1)) ELSE line

\* str::find(';'): the 0-based index of the first ';', or -1 for None
find(line, c) ==
    IF \E i \in 1..Len(line) : line[i] = c
    THEN (CHOOSE i \in 1..Len(line) : line[i] = c /\ \A j \in 1..(i-1) : line[j] # c) - 1
    ELSE -1

\* the two `let line = ...` of the loop body
strip_line(raw) ==
    LET line == trim_right(raw)
        i == find(line, ";")
    IN  IF i >= 0 THEN SubSeq(line, 1, i) ELSE line

\* the loop of load_levels over lines[k..]; file_lines is levels.lines() and
\* result the vector parsed_levels
RECURSIVE load_loop(_, _, _, _)
load_loop(file_lines, k, result, map_lines) ==
    IF k > Len(file_lines) THEN Ok(result)
    ELSE LET line == strip_line(file_lines[k])
         IN  IF line # <<>>
             THEN load_loop(file_lines, k+1, result, Append(map_lines, line))
             ELSE IF line = <<>> /\ map_lines # <<>>
             THEN LET r == from_lines(map_lines)
                  IN  IF ~r.ok THEN Err(r.error)
                      ELSE load_loop(file_lines, k+1, Append(result, r.value), <<>>)
             ELSE load_loop(file_lines, k+1, result, map_lines)

load_levels(text) == load_loop(str_lines(text, 1, <<>>), 1, <<>>, <<>>)

\* ---------------------------------------------------------------- inputs
\* every sequence over alphabet of length at most n
Strings(alphabet, n) == UNION {[1..k -> alphabet] : k \in 0..n}

\* the pieces of text between its newlines (the last piece kept), so that
\* every set of lines, empty lines included, is the split of some text
RECURSIVE split_rows(_, _, _)
split_rows(text, i, cur) ==
    IF i > Len(text) THEN <<cur>>
    ELSE IF text[i] = Newline THEN <<cur>> \o split_rows(text, i+1, <<>>)
    ELSE split_rows(text, i+1, Append(cur, text[i]))

Legend == {"#", "@", "+", "$", "*", ".", " "}

\* the line sets given to Level::from_lines: no line at all, and the rows of
\* every text over the legend and one character outside it
LineSets == {<<>>} \cup {split_rows(t, 1, <<>>) :
                          t \in Strings(Legend \cup {"x", Newline}, MaxText)}

\* the level files given to load_levels
FileChars == {"@", "$", "x", " ", ";", Newline}
FileTexts == Strings(FileChars, MaxFile)

\* The level files the game starts from (LEVELS).  Scenarios A, B and C of
\* the specification; a one-row level wider than it is high, with a wall
\* right of column `height`; a walled level higher than it is wide; a level
\* with a player on a goal, a box on a goal and a spare goal; levels with no
\* wall around them, one cell, one column and one row; a file of two levels.
ScenarioA == <<"#", "#", "#", "#", "#", Newline,
               "#", "@", " ", ".", "#", Newline,
               "#", "#", "#", "#", "#", Newline>>
ScenarioB == <<"#", "#", "#", "#", "#", Newline,
               "#", "@", "$", ".", "#", Newline,
               "#", "#", "#", "#", "#", Newline>>
ScenarioC == <<"#", "#", "#", "#", "#", Newline,
               "#", "@", "$", "$", "#", Newline,
               "#", " ", " ", " ", "#", Newline,
               "#", ".", ".", " ", "#", Newline,
               "#", " ", " ", " ", "#", Newline,
               "#", "#", "#", "#", "#", Newline>>
WideLevel == <<"@", " ", "$", " ", "#", Newline>>
TallLevel == <<"#", "#", "#", Newline,
               "#", "@", "#", Newline,
               "#", "$", "#", Newline,
               "#", " ", "#", Newline,
               "#", ".", "#", Newline,
               "#", "#", "#", Newline>>
GoalLevel == <<"#", "#", "#", "#", "#", Newline,
               "#", "+", "*", ".", "#", Newline,
               "#", " ", " ", " ", "#", Newline,
               "#", " ", " ", " ", "#", Newline,
               "#", " ", " ", " ", "#", Newline,
               "#", "#", "#", "#", "#", Newline>>
OneCell == <<"@", Newline>>
OneColumn == <<"@", Newline,
               "$", Newline,
               ".", Newline>>
OneRow == <<"$", "@", "$", Newline>>
NamedLevels == {ScenarioA, ScenarioB, ScenarioC, WideLevel, TallLevel, GoalLevel,
                OneCell, OneColumn, OneRow}

BootTexts ==
    {t \o <<Newline>> : t \in NamedLevels}
    \cup {ScenarioB \o <<Newline>> \o WideLevel \o <<Newline>>}

\* the files chosen on key L: a file of one level, a file of two levels, an
\* empty file and a file with a character that is no tile
LoadTexts ==
    {OneCell \o <<Newline>>,
     OneCell \o <<Newline>> \o OneColumn \o <<Newline>>,
     <<>>, <<"x", Newline, Newline>>}


\* load_levels(&contents) of each of these files
LoadResults == [contents \in LoadTexts |-> load_levels(contents)]

\* ----------------------------------------------------------------- state
VARIABLES
    files,            \* main: what load_levels returns for each file that
                      \* key L can choose (load_levels is a pure function,
                      \* its results are computed once)
    lines,            \* the argument of Level::from_lines
    parsed,           \* its result
    levels,           \* the argument of load_levels
    loaded,           \* its result
    parsed_levels,    \* main: the loaded levels
    level_number,     \* main: the index of the level being played
    game,             \* main: the Game (level, state)
    fault,            \* the panic the process ended in, NoFault while it runs
    overflow_checks,  \* the build panics on integer overflow (else it wraps)
    last              \* the last operation applied, its argument and result
                      \* and, for make_move and the reset, the GameState it
                      \* was applied to, for a change of level the index it
                      \* left

vars == <<files, lines, parsed, levels, loaded, parsed_levels, level_number, game,
          fault, overflow_checks, last>>

Pending == [pending |-> TRUE]
NoGame == [none |-> TRUE]

\* ------------------------------------------- specification: from_lines
FromLines ==
    /\ parsed = Pending
    /\ parsed' = from_lines(lines)
    /\ last' = [op |-> "from_lines"]
    /\ UNCHANGED <<files, lines, levels, loaded, parsed_levels, level_number, game,
                   fault, overflow_checks>>

InitParse ==
    /\ files = <<>>
    /\ lines \in LineSets
    /\ parsed = Pending
    /\ levels = <<>>
    /\ loaded = Pending
    /\ parsed_levels = <<>>
    /\ level_number = 0
    /\ game = NoGame
    /\ fault = NoFault
    /\ overflow_checks = TRUE
    /\ last = [op |-> "none"]

NextParse == FromLines

SpecParse == InitParse /\ [][NextParse]_vars

\* ------------------------------------------ specification: load_levels
LoadLevels ==
    /\ loaded = Pending
    /\ loaded' = load_levels(levels)
    /\ last' = [op |-> "load_levels"]
    /\ UNCHANGED <<files, lines, parsed, levels, parsed_levels, level_number, game,
                   fault, overflow_checks>>

InitLoad ==
    /\ files = <<>>
    /\ lines = <<>>
    /\ parsed = Pending
    /\ levels \in FileTexts
    /\ loaded = Pending
    /\ parsed_levels = <<>>
    /\ level_number = 0
    /\ game = NoGame
    /\ fault = NoFault
    /\ overflow_checks = TRUE
    /\ last = [op |-> "none"]

NextLoad == LoadLevels

SpecLoad == InitLoad /\ [][NextLoad]_vars

\* ------------------------------------------------ specification: main
\* the player and every box are within MaxOut cells of the grid
InView(level, state) ==
    LET in(p) == /\ p.x >= -MaxOut /\ p.x <= level.width - 1 + MaxOut
                 /\ p.y >= -MaxOut /\ p.y <= level.height - 1 + MaxOut
    IN  /\ in(state.player.position)
        /\ \A i \in 1..Len(state.stars) : in(state.stars[i].position)

\* main, lines 460-462, for a LEVELS on which neither unwrap nor
\* parsed_levels[0] panics
Init ==
    /\ files = LoadResults
    /\ lines = <<>>
    /\ parsed = Pending
    /\ levels = <<>>
    /\ loaded = Pending
    /\ \E t \in BootTexts :
          LET r == load_levels(t)
          IN  /\ r.ok
              /\ r.value # <<>>
              /\ parsed_levels = r.value
              /\ game = from_level(r.value[1])
    /\ level_number = 0
    /\ fault = NoFault
    /\ overflow_checks \in BOOLEAN
    /\ last = [op |-> "main"]

\* Game::step on an arrow key: game.make_move(direction)
MakeMove(direction) ==
    /\ fault = NoFault
    /\ LET r == make_move(game, direction, overflow_checks)
       IN  /\ InView(game.level, r.state)
           /\ game' = [game EXCEPT !.state = r.state]
           /\ fault' = r.fault
    /\ last' = [op |-> "make_move", direction |-> direction, before |-> game.state]
    /\ UNCHANGED <<files, lines, parsed, levels, loaded, parsed_levels, level_number,
                   overflow_checks>>

\* main on key N
NextLevel ==
    /\ fault = NoFault
    /\ LET len == Len(parsed_levels)
       IN  level_number' = (level_number + len + 1) % len
    /\ game' = from_level(parsed_levels[level_number' + 1])
    /\ last' = [op |-> "next", from |-> level_number]
    /\ UNCHANGED <<files, lines, parsed, levels, loaded, parsed_levels, fault,
                   overflow_checks>>

\* main on key B
PrevLevel ==
    /\ fault = NoFault
    /\ LET len == Len(parsed_levels)
       IN  level_number' = (level_number + len - 1) % len
    /\ game' = from_level(parsed_levels[level_number' + 1])
    /\ last' = [op |-> "previous", from |-> level_number]
    /\ UNCHANGED <<files, lines, parsed, levels, loaded, parsed_levels, fault,
                   overflow_checks>>

\* a Backspace that leaves the game as it is
Reset_keeps_game ==
    /\ fault = NoFault
    /\ game' = game
    /\ last' = [op |-> "reset", before |-> game.state]
    /\ UNCHANGED <<files, lines, parsed, levels, loaded, parsed_levels, level_number,
                   fault, overflow_checks>>

\* main on key Backspace
Reset ==
    /\ fault = NoFault
    /\ game' = from_level(parsed_levels[level_number + 1])
    /\ last' = [op |-> "reset", before |-> game.state]
    /\ UNCHANGED <<files, lines, parsed, levels, loaded, parsed_levels, level_number,
                   fault, overflow_checks>>

\* main after rendering: if game.solved(), a key moves on to the next level
Advance ==
    /\ fault = NoFault
    /\ solved(game)
    /\ LET len == Len(parsed_levels)
       IN  level_number' = (level_number + len + 1) % len
    /\ game' = from_level(parsed_levels[level_number' + 1])
    /\ last' = [op |-> "advance", from |-> level_number]
    /\ UNCHANGED <<files, lines, parsed, levels, loaded, parsed_levels, fault,
                   overflow_checks>>

\* main on key L, for a file that opens and reads (a cancelled dialog does
\* nothing): level_number and parsed_levels are assigned before
\* parsed_levels[0] is read, a file that load_levels refuses changes nothing
LoadFile(contents) ==
    /\ fault = NoFault
    /\ LET r == files[contents]
       IN  IF r.ok
           THEN /\ level_number' = 0
                /\ parsed_levels' = r.value
                /\ IF r.value = <<>>
                   THEN game' = game /\ fault' = IndexFault
                   ELSE game' = from_level(r.value[1]) /\ fault' = fault
                /\ last' = [op |-> "load"]
           ELSE UNCHANGED <<level_number, parsed_levels, game, fault, last>>
    /\ UNCHANGED <<files, lines, parsed, levels, loaded, overflow_checks>>

Next ==
    \/ \E direction \in Direction : MakeMove(direction)
    \/ NextLevel
    \/ PrevLevel
    \/ Reset
    \/ Advance
    \/ \E contents \in LoadTexts : LoadFile(contents)

Spec == Init /\ [][Next]_vars

\* --------------------------------------------- specification: is_wall
\* Level::is_wall asked about a cell of the level of the game or a cell up
\* to MaxOut + 1 cells outside it (make_move asks about the cell one step
\* and the cell two steps ahead of the player)
IsWall(x, y) ==
    /\ last' = [op |-> "is_wall", x |-> x, y |-> y,
                answer |-> is_wall(game.level, x, y)]
    /\ UNCHANGED <<files, lines, parsed, levels, loaded, parsed_levels, level_number,
                   game, fault, overflow_checks>>

InitWall ==
    /\ files = <<>>
    /\ lines = <<>>
    /\ parsed = Pending
    /\ levels = <<>>
    /\ loaded = Pending
    /\ \E t \in BootTexts :
          LET r == load_levels(t)
          IN  /\ r.ok
              /\ parsed_levels = r.value
              /\ \E i \in 1..Len(r.value) :
                    /\ level_number = i - 1
                    /\ game = from_level(r.value[i])
    /\ fault = NoFault
    /\ overflow_checks = TRUE
    /\ last = [op |-> "none"]

NextWall ==
    \E x \in (0 - MaxOut - 1)..(game.level.width + MaxOut) :
        \E y \in (0 - MaxOut - 1)..(game.level.height + MaxOut) : IsWall(x, y)

SpecWall == InitWall /\ [][NextWall]_vars

\* ---------------------------------------------------------------- claims
\* the cell (x, y) is a Wall tile of the level's map
WallTile(level, x, y) ==
    /\ 0 <= x /\ x < level.width
    /\ 0 <= y /\ y < level.height
    /\ level.map[y+1][x+1] = "Wall"

\* a box of the state stands on (x, y)
BoxAt(state, x, y) == \E i \in 1..Len(state.stars) : state.stars[i].position = Position(x, y)

\* the cell n steps from the player of the state in the direction
Ahead(state, direction, n) ==
    LET off == as_offset(direction)
    IN  Position(state.player.position.x + n * off[1],
                 state.player.position.y + n * off[2])

MoveMade == last.op = "make_move"

\* the last operation was make_move on a state in which the cell ahead held a
\* box and the cell behind it a Wall tile or another box
BlockedPush ==
    /\ MoveMade
    /\ LET a1 == Ahead(last.before, last.direction, 1)
           a2 == Ahead(last.before, last.direction, 2)
       IN  /\ BoxAt(last.before, a1.x, a1.y)
           /\ \/ WallTile(game.level, a2.x, a2.y)
              \/ BoxAt(last.before, a2.x, a2.y)

\* C1: a push of a box against a Wall tile or against another box leaves the
\* player's position, every box and the step counter as they were and sets
\* the facing to the direction of the move.
C1_BlockedPushIsNoOp ==
    BlockedPush =>
        /\ game.state.player.position = last.before.player.position
        /\ game.state.stars = last.before.stars
        /\ game.state.steps = last.before.steps
        /\ game.state.player.direction = last.direction

\* C2: a move that is accepted (the player changes cell) adds exactly 1 to
\* steps and a move that is rejected leaves steps as it was.
C2_StepCounter ==
    MoveMade =>
        IF game.state.player.position # last.before.player.position
        THEN game.state.steps = last.before.steps + 1
        ELSE game.state.steps = last.before.steps

BoxPositions(state) == {state.stars[i].position : i \in 1..Len(state.stars)}
GoalPositions(state) == {state.goals[i].position : i \in 1..Len(state.goals)}

\* C3: Game::solved is true exactly when the set of box positions equals the
\* set of goal positions.
C3_SolvedIffBoxesEqualGoals ==
    game # NoGame => (solved(game) <=> BoxPositions(game.state) = GoalPositions(game.state))

\* C4: in every state reached by moves from a level's start state no two
\* boxes stand on the same cell.
C4_BoxesDistinct ==
    game # NoGame =>
        \A i, j \in 1..Len(game.state.stars) :
            i # j => game.state.stars[i].position # game.state.stars[j].position

\* a push of a box against another box has just been refused
C4_Witness ==
    /\ MoveMade
    /\ fault = NoFault
    /\ LET a1 == Ahead(last.before, last.direction, 1)
           a2 == Ahead(last.before, last.direction, 2)
       IN  /\ BoxAt(last.before, a1.x, a1.y)
           /\ BoxAt(last.before, a2.x, a2.y)
    /\ game.state.stars = last.before.stars
    /\ last.before.stars # game.level.start_state.stars

\* C5: a move towards a Wall tile of the map leaves the player's position
\* and every box where they were and sets the facing to the direction.
C5_MoveIntoWall ==
    (/\ MoveMade
     /\ LET a1 == Ahead(last.before, last.direction, 1)
        IN  WallTile(game.level, a1.x, a1.y))
    => /\ game.state.player.position = last.before.player.position
       /\ game.state.stars = last.before.stars
       /\ game.state.player.direction = last.direction

\* C6: no make_move ends in a panic (the tile grid indexed outside a row, a
\* usize coordinate taken below 0), and no coordinate of the player or of a
\* box was taken below 0.
C6_MakeMoveTotal ==
    /\ fault = NoFault
    /\ game # NoGame =>
          /\ game.state.player.position.x >= 0
          /\ game.state.player.position.y >= 0
          /\ \A i \in 1..Len(game.state.stars) :
                /\ game.state.stars[i].position.x >= 0
                /\ game.state.stars[i].position.y >= 0

Parsed == parsed # Pending

\* C7: the goal list of a parsed level holds a goal at (x, y) exactly when
\* the character at column x of row y is '.', '+' or '*'.
C7_GoalsRecorded ==
    (Parsed /\ parsed.ok) =>
        /\ \A y \in 0..(Len(lines) - 1) : \A x \in 0..(Len(lines[y+1]) - 1) :
              contains(parsed.value.start_state.goals, Goal(Position(x, y)))
                  <=> lines[y+1][x+1] \in {".", "+", "*"}
        /\ \A i \in 1..Len(parsed.value.start_state.goals) :
              LET p == parsed.value.start_state.goals[i].position
              IN  /\ 0 <= p.y /\ p.y < Len(lines)
                  /\ 0 <= p.x /\ p.x < Len(lines[p.y+1])

\* the stripped lines of a level file, grouped into its blocks: the maximal
\* runs of lines that are not blank
RECURSIVE group_blocks(_, _, _)
group_blocks(ls, k, cur) ==
    IF k > Len(ls) THEN (IF cur = <<>> THEN <<>> ELSE <<cur>>)
    ELSE LET line == strip_line(ls[k])
         IN  IF line # <<>> THEN group_blocks(ls, k+1, Append(cur, line))
             ELSE IF cur # <<>> THEN <<cur>> \o group_blocks(ls, k+1, <<>>)
             ELSE group_blocks(ls, k+1, <<>>)

file_blocks(text) == group_blocks(str_lines(text, 1, <<>>), 1, <<>>)

Loaded == loaded # Pending

\* C8: of a file made of k >= 1 valid level blocks, with or without a blank
\* line after the last, load_levels returns exactly the k levels, in order,
\* the i-th being the parse of the i-th block.
C8_LoadsEveryBlock ==
    LET blocks == file_blocks(levels)
    IN  (/\ Loaded
         /\ blocks # <<>>
         /\ \A i \in 1..Len(blocks) : from_lines(blocks[i]).ok)
        => /\ loaded.ok
           /\ Len(loaded.value) = Len(blocks)
           /\ \A i \in 1..Len(blocks) : loaded.value[i] = from_lines(blocks[i]).value

\* how many characters of the lines are a player tile
RECURSIVE count_players(_, _)
count_players(ls, k) ==
    IF k > Len(ls) THEN 0
    ELSE Cardinality({x \in 1..Len(ls[k]) : ls[k][x] \in {"@", "+"}})
         + count_players(ls, k+1)

\* C9: Level::from_lines succeeds only on lines holding exactly one player
\* tile; it fails on none and on two or more.
C9_ExactlyOneStart ==
    (Parsed /\ parsed.ok) => count_players(lines, 1) = 1

\* the lines cannot be a level: there are none, a character is outside the
\* legend, or no player tile is among them
Unparsable(ls) ==
    \/ ls = <<>>
    \/ \E k \in 1..Len(ls) : \E x \in 1..Len(ls[k]) : ls[k][x] \notin Legend
    \/ count_players(ls, 1) = 0

\* C10: from_lines returns an error and no Level for lines that cannot be a
\* level, and load_levels returns an error and no list of levels for a file
\* of which any block cannot be a level.
C10_FailuresRejectWhole ==
    LET blocks == file_blocks(levels)
    IN  Loaded =>
          /\ ~from_lines(<<>>).ok
          /\ \A i \in 1..Len(blocks) :
                Unparsable(blocks[i]) =>
                    /\ ~from_lines(blocks[i]).ok
                    /\ "value" \notin DOMAIN from_lines(blocks[i])
          /\ (\E i \in 1..Len(blocks) : Unparsable(blocks[i]))
                => /\ ~loaded.ok
                   /\ "value" \notin DOMAIN loaded

\* the grid a set of lines describes: as many rows as lines, as many
\* columns as the longest line has characters
TextHeight(ls) == Len(ls)
TextWidth(ls) ==
    CHOOSE w \in 0..MaxText :
        /\ \A k \in 1..Len(ls) : Len(ls[k]) <= w
        /\ \E k \in 1..Len(ls) : Len(ls[k]) = w
TextCells(ls) == {Position(x, y) : x \in 0..(TextWidth(ls) - 1), y \in 0..(TextHeight(ls) - 1)}
\* the character of the text at a cell, a blank where the line is shorter
CharAt(ls, p) == IF p.x < Len(ls[p.y+1]) THEN ls[p.y+1][p.x+1] ELSE " "

\* the cells joined to the cells of `seen` by a 4-connected path of cells
\* of the grid that hold no '#'
RECURSIVE Reachable(_, _)
Reachable(ls, seen) ==
    LET near(p, q) == \/ (p.x = q.x /\ (p.y = q.y + 1 \/ p.y + 1 = q.y))
                      \/ (p.y = q.y /\ (p.x = q.x + 1 \/ p.x + 1 = q.x))
        more == {p \in TextCells(ls) \ seen :
                    CharAt(ls, p) # "#" /\ \E q \in seen : near(p, q)}
    IN  IF more = {} THEN seen ELSE Reachable(ls, seen \cup more)

\* C11: in a parsed level a cell that is no Wall is InsideFloor exactly when
\* a 4-connected path of cells that are no Wall joins it to the start cell;
\* every other such cell is OutsideFloor, and the Wall cells are the '#'.
C11_FloodFill ==
    (Parsed /\ parsed.ok) =>
        LET level == parsed.value
            inside == Reachable(lines, {level.start_state.player.position})
        IN  \A p \in TextCells(lines) :
                level.map[p.y+1][p.x+1] =
                    IF CharAt(lines, p) = "#" THEN "Wall"
                    ELSE IF p \in inside THEN "InsideFloor"
                    ELSE "OutsideFloor"

\* a parsed level with a wall, floor inside (beside the start cell) and
\* floor outside
C11_Witness ==
    /\ Parsed /\ parsed.ok
    /\ \E p, q, r \in TextCells(lines) :
          /\ p # parsed.value.start_state.player.position
          /\ parsed.value.map[p.y+1][p.x+1] = "InsideFloor"
          /\ parsed.value.map[q.y+1][q.x+1] = "OutsideFloor"
          /\ parsed.value.map[r.y+1][r.x+1] = "Wall"

\* C12: of a parsed level the width is the length of the longest line, the
\* height the number of lines, every row of the map has width tiles, and
\* every cell added to a shorter row is floor.
C12_Geometry ==
    (Parsed /\ parsed.ok) =>
        LET level == parsed.value
        IN  /\ level.width = TextWidth(lines)
            /\ level.height = Len(lines)
            /\ Len(level.map) = level.height
            /\ \A y \in 1..Len(level.map) : Len(level.map[y]) = level.width
            /\ \A y \in 1..Len(lines) : \A x \in (Len(lines[y]) + 1)..level.width :
                  level.map[y][x] \in {"OutsideFloor", "InsideFloor"}

\* a parsed level with a line shorter than another
C12_Witness ==
    /\ Parsed /\ parsed.ok
    /\ \E j, k \in 1..Len(lines) : Len(lines[j]) < Len(lines[k])

\* C13: Level::is_wall(x, y) is true exactly when (x, y) is a cell of the
\* grid (0 <= x < width, 0 <= y < height) that holds a Wall, and for a cell
\* outside the grid it returns false without indexing the map.
C13_IsWallBounds ==
    last.op = "is_wall" =>
        /\ ~last.answer.panicked
        /\ last.answer.value = WallTile(game.level, last.x, last.y)

\* the last operation was make_move, it returned, and it was applied to a
\* state in which the cell ahead held a box and the cell behind that box
\* was neither a Wall tile nor held a box
FreePush ==
    /\ MoveMade
    /\ fault = NoFault
    /\ LET a1 == Ahead(last.before, last.direction, 1)
           a2 == Ahead(last.before, last.direction, 2)
       IN  /\ BoxAt(last.before, a1.x, a1.y)
           /\ ~WallTile(game.level, a2.x, a2.y)
           /\ ~BoxAt(last.before, a2.x, a2.y)

C15_FacingUpdated ==
    MoveMade => game.state.player.direction = last.direction

\* a move in a new direction was rejected: nothing but the facing changed
C15_Witness ==
    /\ MoveMade
    /\ fault = NoFault
    /\ last.before.player.direction # last.direction
    /\ game.state.player.position = last.before.player.position
    /\ game.state.stars = last.before.stars

\* the boxes whose position the last make_move changed
MovedBoxes ==
    {i \in 1..Len(last.before.stars) : game.state.stars[i] # last.before.stars[i]}

\* C16: make_move leaves the level of the game (grid, width, height,
\* start_state), the goals and the number of boxes as they were and moves at
\* most one box, the one that stood on the cell ahead of the player.
C16_MoveFrame ==
    MoveMade =>
        /\ game.level = parsed_levels[level_number + 1]
        /\ game.state.goals = last.before.goals
        /\ game.state.goals = game.level.start_state.goals
        /\ Len(game.state.stars) = Len(last.before.stars)
        /\ Cardinality(MovedBoxes) <= 1
        /\ \A i \in MovedBoxes :
              last.before.stars[i].position = Ahead(last.before, last.direction, 1)

\* a make_move moved one box of several
C16_Witness ==
    /\ MoveMade
    /\ Len(last.before.stars) >= 2
    /\ MovedBoxes # {}

\* C17: a reset gives the game the start_state of the stored level (facing
\* Right, steps 0, the initial boxes and goals), and the stored level of
\* the game is the loaded level at level_number, where the loaded file has
\* one, whatever moves and resets were made.
C17_ResetRestores ==
    (game # NoGame /\ level_number < Len(parsed_levels)) =>
        /\ game.level = parsed_levels[level_number + 1]
        /\ game.level.start_state.player.direction = "Right"
        /\ game.level.start_state.steps = 0
        /\ last.op = "reset" =>
              /\ game.state = parsed_levels[level_number + 1].start_state
              /\ game.state.player.direction = "Right"
              /\ game.state.steps = 0

\* a reset of a game in which the player and a box had been moved
C17_Witness ==
    /\ last.op = "reset"
    /\ last.before.player.position # game.state.player.position
    /\ last.before.stars # game.state.stars

\* C18: Game::solved is true exactly when every box stands on the position
\* of some goal, whether or not every goal is covered.
C18_SolvedIsBoxesOnGoals ==
    game # NoGame =>
        (solved(game) <=> BoxPositions(game.state) \subseteq GoalPositions(game.state))

\* a push has just put the last box on a goal
C18_Witness ==
    /\ MoveMade
    /\ game.state.stars # <<>>
    /\ solved(game)
    /\ ~(BoxPositions(last.before) \subseteq GoalPositions(last.before))

\* the cells of the lines that hold a character (no padding)
WrittenCells(ls) ==
    {Position(x, y) : x \in 0..(TextWidth(ls) - 1), y \in 0..(Len(ls) - 1)}
        \cap {p \in TextCells(ls) : p.x < Len(ls[p.y+1])}

\* p comes before q in row-major order
RowMajorBefore(p, q) == p.y < q.y \/ (p.y = q.y /\ p.x < q.x)

\* C19: of a parsed level the start position is the cell of a '@' or '+',
\* the boxes are the cells of the '$' and '*' in row-major order, the map
\* holds Wall exactly on the '#' and floor on every other cell (no Player,
\* Star or Goal marker), and the start state has steps 0.
C19_EntityExtraction ==
    (Parsed /\ parsed.ok) =>
        LET level == parsed.value
            start == level.start_state
            boxes == {p \in WrittenCells(lines) : CharAt(lines, p) \in {"$", "*"}}
        IN  /\ start.player.position \in WrittenCells(lines)
            /\ CharAt(lines, start.player.position) \in {"@", "+"}
            /\ Len(start.stars) = Cardinality(boxes)
            /\ \A i \in 1..Len(start.stars) : start.stars[i].position \in boxes
            /\ \A i, j \in 1..Len(start.stars) :
                  i < j => RowMajorBefore(start.stars[i].position, start.stars[j].position)
            /\ \A p \in WrittenCells(lines) :
                  IF CharAt(lines, p) = "#"
                  THEN level.map[p.y+1][p.x+1] = "Wall"
                  ELSE level.map[p.y+1][p.x+1] \in {"OutsideFloor", "InsideFloor"}
            /\ start.steps = 0

\* a parsed level with two boxes and a wall
C19_Witness ==
    /\ Parsed /\ parsed.ok
    /\ Len(parsed.value.start_state.stars) >= 2
    /\ \E p \in WrittenCells(lines) : CharAt(lines, p) = "#"

\* a line of a level file with its comment removed (everything from the
\* first ';') and then its trailing whitespace removed
comment_then_trim(raw) ==
    LET i == find(raw, ";")
    IN  trim_right(IF i >= 0 THEN SubSeq(raw, 1, i) ELSE raw)

\* rows, grouped into the maximal runs of rows that are not empty
RECURSIVE group_rows(_, _, _)
group_rows(rows, k, cur) ==
    IF k > Len(rows) THEN (IF cur = <<>> THEN <<>> ELSE <<cur>>)
    ELSE IF rows[k] # <<>> THEN group_rows(rows, k+1, Append(cur, rows[k]))
    ELSE IF cur # <<>> THEN <<cur>> \o group_rows(rows, k+1, <<>>)
    ELSE group_rows(rows, k+1, <<>>)

\* C20: the rows load_levels hands to the parser are the lines with the
\* comment removed and then the trailing whitespace removed, a line of
\* whitespace and a comment being a blank line.  Stated of the files that
\* end in an empty line and whose blocks of such rows all parse: the
\* levels returned are the parses of those blocks.
C20_CommentThenTrim ==
    LET ls == str_lines(levels, 1, <<>>)
        rows == [k \in 1..Len(ls) |-> comment_then_trim(ls[k])]
        blocks == group_rows(rows, 1, <<>>)
    IN  (/\ Loaded
         /\ ls # <<>>
         /\ ls[Len(ls)] = <<>>
         /\ \A i \in 1..Len(blocks) : from_lines(blocks[i]).ok)
        => /\ loaded.ok
           /\ Len(loaded.value) = Len(blocks)
           /\ \A i \in 1..Len(blocks) : loaded.value[i] = from_lines(blocks[i]).value

\* C21: in every state reached by moves from the start state of a parsed
\* level neither the player nor a box stands on a cell whose map tile is
\* Wall.
C21_WallsNeverEntered ==
    game # NoGame =>
        /\ ~WallTile(game.level, game.state.player.position.x,
                     game.state.player.position.y)
        /\ \A i \in 1..Len(game.state.stars) :
              ~WallTile(game.level, game.state.stars[i].position.x,
                        game.state.stars[i].position.y)

\* C22: in every state reached by moves from the start state of a parsed
\* level the player stands on a cell that holds no box.
C22_PlayerOffBoxes ==
    game # NoGame =>
        \A i \in 1..Len(game.state.stars) :
            game.state.stars[i].position # game.state.player.position

\* a push has put the player on the cell the box stood on
C22_Witness ==
    /\ MoveMade
    /\ fault = NoFault
    /\ game.state.player.position # last.before.player.position
    /\ BoxAt(last.before, game.state.player.position.x,
             game.state.player.position.y)

\* C23: after every command of the host (next, previous, reset, advance
\* after a solved level, a level file that load_levels accepts) level_number
\* is an index of parsed_levels, no command has read a level that does not
\* exist, next and advance go from the last level to the first and previous
\* goes from the first to the last.
C23_LevelIndexValid ==
    LET len == Len(parsed_levels)
    IN  /\ 0 <= level_number /\ level_number < len
        /\ last.op = "load" => fault = NoFault
        /\ last.op \in {"next", "advance"} =>
              level_number = (IF last.from = len - 1 THEN 0 ELSE last.from + 1)
        /\ last.op = "previous" =>
              level_number = (IF last.from = 0 THEN len - 1 ELSE last.from - 1)

====
